---- MODULE Spec2Model ----
(***************************************************************************)
(* Model of the Elyvium deploy UI (src/deploy_ui.py): the environment      *)
(* registry, the path guard, the command runner and the deploy             *)
(* orchestrator, one state machine per deploy request.  The handler is a   *)
(* plain def, so the server runs each request on a thread of its pool:     *)
(* requests interleave at every filesystem probe and every subprocess.     *)
(*                                                                         *)
(* Text.  A Python str is modelled as a sequence of atoms.  An atom is a   *)
(* run of characters that the model never looks inside: a separator ("/",  *)
(* " ", "\n"), a path-name fragment ("ecosystem", "-evil"), a word of a    *)
(* command line, or a fixed piece of a message.  Concatenation is \o and   *)
(* str.startswith is the prefix relation on atoms, so "ecosystem-evil"     *)
(* (<<"ecosystem", "-evil">>) starts with "ecosystem" but "ecosystem/"     *)
(* does not start it.                                                      *)
(***************************************************************************)
EXTENDS Integers, Sequences, FiniteSets, TLC

VARIABLES
    cwdir,      \* working directory of the server process (os.getcwd())
    envs,       \* the page's copy of GET /api/envs (<<>>: not loaded yet)
    pc,         \* pc[r]: where request r stands in deploy()
    req,        \* req[r]: the DeployRequest payload of r
    log,        \* log[r]: the local `log` of deploy()
    stageLog,   \* stageLog[r]: the local `log` of the running stage function
    err,        \* err[r]: the HTTPException that ended r (status_code 0: none)
    response,   \* response[r]: the dict deploy() returned (ok FALSE: none)
    calls,      \* every subprocess.run of the process, in spawn order
    sink,       \* sink[r]: what r printed to the terminal, in order
    fschecks    \* fschecks[r]: the os.path.isdir / isfile probes of r, in order

vars == <<cwdir, envs, pc, req, log, stageLog, err, response, calls, sink, fschecks>>

-----------------------------------------------------------------------------
(* Bounds of the model *)

\* exit statuses a subprocess may return are 0..MaxExit
MaxExit == 1

\* a path of the path guard's specification has at most MaxSegs segments
\* after its prefix
MaxSegs == 3

\* the requests that may be in flight at once (served by the thread pool)
Requests == {"r1", "r2"}

-----------------------------------------------------------------------------
(* str helpers *)

Slash == "/"
NL == "\n"
Whitespace == {" ", "\n"}

StartsWith(s, p) == Len(p) <= Len(s) /\ SubSeq(s, 1, Len(p)) = p

\* sep.join(parts)
RECURSIVE Join(_, _)
Join(parts, sep) ==
    IF parts = <<>> THEN <<>>
    ELSE IF Len(parts) = 1 THEN parts[1]
    ELSE parts[1] \o <<sep>> \o Join(Tail(parts), sep)

\* s.split(sep): the pieces between the separators, empty pieces kept
RECURSIVE SplitOn(_, _)
SplitOn(s, sep) ==
    IF \A i \in 1..Len(s) : s[i] # sep THEN <<s>>
    ELSE LET i == CHOOSE k \in 1..Len(s) :
                      s[k] = sep /\ \A j \in 1..(k - 1) : s[j] # sep
         IN  <<SubSeq(s, 1, i - 1)>> \o SplitOn(SubSeq(s, i + 1, Len(s)), sep)

\* s.rstrip()
RECURSIVE RStrip(_)
RStrip(s) ==
    IF s # <<>> /\ s[Len(s)] \in Whitespace THEN RStrip(SubSeq(s, 1, Len(s) - 1))
    ELSE s

\* s.strip()
RECURSIVE Strip(_)
Strip(s) ==
    IF s # <<>> /\ s[1] \in Whitespace THEN Strip(Tail(s)) ELSE RStrip(s)

\* t occurs in s as a contiguous piece
Contains(s, t) ==
    \E i \in 0..(Len(s) - Len(t)) : SubSeq(s, i + 1, i + Len(t)) = t

\* ShlexSplit that passes the command line on as one word
ShlexSplit_unsplit(s) == <<s>>

\* shlex.split(s) for a command line without quotes or escapes: the words
\* between runs of whitespace
ShlexSplit(s) ==
    LET RECURSIVE Words(_, _)
        Words(rest, word) ==
            IF rest = <<>> THEN (IF word = <<>> THEN <<>> ELSE <<word>>)
            ELSE IF rest[1] \in Whitespace
                 THEN (IF word = <<>> THEN <<>> ELSE <<word>>)
                          \o Words(Tail(rest), <<>>)
                 ELSE Words(Tail(rest), Append(word, rest[1]))
    IN  Words(s, <<>>)

-----------------------------------------------------------------------------
(* os.path *)

IsAbs(path) == StartsWith(path, <<Slash>>)

\* os.path.join(a, b)
PathJoin(a, b) ==
    IF IsAbs(b) THEN b
    ELSE IF a = <<>> \/ a[Len(a)] = Slash THEN a \o b
    ELSE a \o <<Slash>> \o b

\* os.path.normpath(path)
NormPath(path) ==
    LET initial_slashes ==
            IF ~StartsWith(path, <<Slash>>) THEN 0
            ELSE IF StartsWith(path, <<Slash, Slash>>)
                    /\ ~StartsWith(path, <<Slash, Slash, Slash>>) THEN 2
            ELSE 1
        comps == SplitOn(path, Slash)
        RECURSIVE Walk(_, _)
        Walk(i, new_comps) ==
            IF i > Len(comps) THEN new_comps
            ELSE LET comp == comps[i] IN
                 IF comp = <<>> \/ comp = <<".">> THEN Walk(i + 1, new_comps)
                 ELSE IF \/ comp # <<"..">>
                         \/ (initial_slashes = 0 /\ new_comps = <<>>)
                         \/ (new_comps # <<>> /\ new_comps[Len(new_comps)] = <<"..">>)
                      THEN Walk(i + 1, Append(new_comps, comp))
                 ELSE IF new_comps # <<>>
                      THEN Walk(i + 1, SubSeq(new_comps, 1, Len(new_comps) - 1))
                 ELSE Walk(i + 1, new_comps)
        joined == [k \in 1..initial_slashes |-> Slash] \o Join(Walk(1, <<>>), Slash)
    IN  IF path = <<>> THEN <<".">>
        ELSE IF joined = <<>> THEN <<".">> ELSE joined

\* os.path.abspath(path), in a process whose working directory is cwd
AbsPath(path, cwd) ==
    NormPath(IF IsAbs(path) THEN path ELSE PathJoin(cwd, path))

-----------------------------------------------------------------------------
(* Security guardrails and the environment allowlist *)

EcosystemDir ==
    <<Slash, "home", Slash, "elyvium", Slash, "projects", Slash, "ecosystem">>

ALLOWED_ROOTS == << EcosystemDir \o <<Slash>> >>

ENVS == <<
    [ key                    |-> <<"TEST">>,
      name                   |-> <<"TEST">>,
      default_work_front_dir |-> EcosystemDir \o <<Slash, "elyvium-ecosystem", "-frontend">>,
      default_work_back_dir  |-> EcosystemDir \o <<Slash, "elyvium-ecosystem">>,
      default_branch         |-> <<"sprint/23">>,
      front_deploy_script    |-> <<".", Slash, "deploy.sh">>,
      backend_compose_command |->
          <<"docker", " ", "compose", " ", "-p", " ", "elyvium-test", " ",
            "--env-file", " ", ".env.test", " ", "up", " ", "--build", " ", "-d">> ],
    [ key                    |-> <<"DEV">>,
      name                   |-> <<"DEV">>,
      default_work_front_dir |-> EcosystemDir \o <<Slash, "elyvium-ecosystem", "-frontend">>,
      default_work_back_dir  |-> EcosystemDir \o <<Slash, "elyvium-ecosystem">>,
      default_branch         |-> <<"sprint/23">>,
      front_deploy_script    |-> <<>>,   \* None: DEV has no frontend deploy
      backend_compose_command |->
          <<"docker", " ", "compose", " ", "--env-file", " ", ".env.dev", " ",
            "up", " ", "--build", " ", "-d">> ] >>

\* {e.key: e for e in ENVS}: a later entry replaces an earlier one of its key
ENVS_BY_KEY ==
    [ k \in {ENVS[i].key : i \in DOMAIN ENVS} |->
        ENVS[CHOOSE i \in DOMAIN ENVS :
                 ENVS[i].key = k /\ \A j \in DOMAIN ENVS : ENVS[j].key = k => j <= i] ]

\* Truthy that takes every script, None too, for configured
Truthy_always(s) == TRUE

\* bool(x) of an Optional[str]: None and "" are both falsy
Truthy(s) == s # <<>>

\* list_envs that reports a frontend for every environment
list_envs_all_frontend ==
    [ i \in DOMAIN ENVS |->
        [ env_key                |-> ENVS[i].key,
          name                   |-> ENVS[i].name,
          default_work_front_dir |-> ENVS[i].default_work_front_dir,
          default_work_back_dir  |-> ENVS[i].default_work_back_dir,
          default_branch         |-> ENVS[i].default_branch,
          has_frontend           |-> TRUE ] ]

\* GET /api/envs: one dict per entry of ENVS, in the order of ENVS
list_envs ==
    [ i \in DOMAIN ENVS |->
        [ env_key                |-> ENVS[i].key,
          name                   |-> ENVS[i].name,
          default_work_front_dir |-> ENVS[i].default_work_front_dir,
          default_work_back_dir  |-> ENVS[i].default_work_back_dir,
          default_branch         |-> ENVS[i].default_branch,
          has_frontend           |-> Truthy(ENVS[i].front_deploy_script) ] ]

-----------------------------------------------------------------------------
(* Visible logging helpers *)

\* datetime.now().strftime(...): the reading of the clock, one opaque atom
_ts == <<"<ts>">>

BannerLine == <<"<100 x block>">>

_banner(title) ==
    <<NL>> \o BannerLine \o <<NL, "# ">> \o _ts \o <<" | ">> \o title \o <<NL>>
        \o BannerLine \o <<NL>>

_cmd_block(cmd, cwd) ==
    <<NL, "<box top>", NL, "<box COMMAND>", NL, "<box rule>", NL, "| CWD : ">>
        \o cwd \o <<NL, "| CMD : ">> \o Join(cmd, " ") \o <<NL, "<box bottom>", NL>>

\* str(list_of_str) as the f-string renders ALLOWED_ROOTS
ReprList(l) ==
    <<"[">> \o Join([i \in DOMAIN l |-> <<"'">> \o l[i] \o <<"'">>], ", ") \o <<"]">>

-----------------------------------------------------------------------------
(* Validation helpers *)

\* _is_under_allowed_roots that compares the path as it was sent
_is_under_allowed_roots_as_sent(path) ==
    \E i \in DOMAIN ALLOWED_ROOTS : StartsWith(path, ALLOWED_ROOTS[i])

_is_under_allowed_roots(path) ==
    LET abs == AbsPath(path, cwdir)
    IN  \E i \in DOMAIN ALLOWED_ROOTS : StartsWith(abs, ALLOWED_ROOTS[i])

-----------------------------------------------------------------------------
(* Inputs: what a client may send, what the filesystem and a subprocess    *)
(* may answer                                                              *)

BackDir == EcosystemDir \o <<Slash, "elyvium-ecosystem">>
FrontDir == EcosystemDir \o <<Slash, "elyvium-ecosystem", "-frontend">>

CwdChoices == { <<Slash, "srv">>, EcosystemDir }

EnvKeyInputs == { <<"TEST">>, <<"DEV">>, <<"PROD">> }

PathInputs ==
    { BackDir,
      FrontDir,
      <<"elyvium-ecosystem">>,                            \* relative to cwdir
      EcosystemDir \o <<Slash>>,                          \* the root itself
      EcosystemDir \o <<Slash, "..", Slash, "secrets">>,  \* escapes by ..
      EcosystemDir \o <<"-evil">>,                        \* sibling of the root
      <<Slash, "etc">> }

BranchInputs == { <<"sprint/23">>, <<"main">> }

DeployRequest(env_keys, dirs, branches) ==
    [ env_key : env_keys, work_front_dir : dirs, work_back_dir : dirs,
      branch : branches ]

RequestInputs == DeployRequest(EnvKeyInputs, PathInputs, BranchInputs)

StdoutChoices == { <<>>, <<"Started", NL>> }
StderrChoices == { <<>>, <<"conflict", NL>> }

\* what subprocess.run may report: returncode, stdout, stderr
Completed(rcs, outs, errs) == [ returncode : rcs, stdout : outs, stderr : errs ]

ProcessOutcomes == Completed(0..MaxExit, StdoutChoices, StderrChoices)

-----------------------------------------------------------------------------
(* State *)

NoRequest ==
    [ env_key |-> <<>>, work_front_dir |-> <<>>, work_back_dir |-> <<>>,
      branch |-> <<>> ]
NoError == [ status_code |-> 0, detail |-> <<>> ]
NoResponse == [ ok |-> FALSE, env |-> <<>>, output |-> <<>> ]

Init ==
    /\ cwdir \in CwdChoices
    /\ envs = <<>>
    /\ pc = [r \in Requests |-> "idle"]
    /\ req = [r \in Requests |-> NoRequest]
    /\ log = [r \in Requests |-> <<>>]
    /\ stageLog = [r \in Requests |-> <<>>]
    /\ err = [r \in Requests |-> NoError]
    /\ response = [r \in Requests |-> NoResponse]
    /\ calls = <<>>
    /\ sink = [r \in Requests |-> <<>>]
    /\ fschecks = [r \in Requests |-> <<>>]

\* raise HTTPException(status_code, detail): the request ends here; the
\* locals keep the values they had when the exception left the frame
HTTPException(r, status_code, detail) ==
    /\ pc' = [pc EXCEPT ![r] = "error"]
    /\ err' = [err EXCEPT ![r] = [status_code |-> status_code, detail |-> detail]]

\* print(text) by request r
Printed(r, text) == [ req |-> r, text |-> text \o <<NL>> ]

\* the stage a request is in, by its position
StageOf(p) ==
    IF p \in {"front_git", "front_file", "front_run", "front_wait"}
    THEN "frontend" ELSE "backend"

\* Continue with _deploy_backend checking its directory after git fetch
Continue_fetch_before_check(p) ==
    CASE p = "deploy"       -> "frontend"
      [] p = "frontend"     -> "front_git"
      [] p = "front_git"    -> "front_file"
      [] p = "front_file"   -> "front_run"
      [] p = "front_run"    -> "front_wait"
      [] p = "front_wait"   -> "backend"
      [] p = "backend"      -> "fetch"
      [] p = "fetch"        -> "fetch_wait"
      [] p = "fetch_wait"   -> "back_git"
      [] p = "back_git"     -> "pull"
      [] p = "pull"         -> "pull_wait"
      [] p = "pull_wait"    -> "compose"
      [] p = "compose"      -> "compose_wait"
      [] p = "compose_wait" -> "finish"
      [] p = "finish"       -> "done"

\* Continue with _deploy_frontend checking the script file after running it
Continue_run_before_file_check(p) ==
    CASE p = "deploy"       -> "frontend"
      [] p = "frontend"     -> "front_git"
      [] p = "front_git"    -> "front_run"
      [] p = "front_run"    -> "front_wait"
      [] p = "front_wait"   -> "front_file"
      [] p = "front_file"   -> "backend"
      [] p = "backend"      -> "back_git"
      [] p = "back_git"     -> "fetch"
      [] p = "fetch"        -> "fetch_wait"
      [] p = "fetch_wait"   -> "pull"
      [] p = "pull"         -> "pull_wait"
      [] p = "pull_wait"    -> "compose"
      [] p = "compose"      -> "compose_wait"
      [] p = "compose_wait" -> "finish"
      [] p = "finish"       -> "done"

\* Continue of a stage that starts git fetch without waiting for it
Continue_fetch_not_awaited(p) ==
    CASE p = "deploy"       -> "frontend"
      [] p = "frontend"     -> "front_git"
      [] p = "front_git"    -> "front_file"
      [] p = "front_file"   -> "front_run"
      [] p = "front_run"    -> "front_wait"
      [] p = "front_wait"   -> "backend"
      [] p = "backend"      -> "back_git"
      [] p = "back_git"     -> "fetch"
      [] p = "fetch"        -> "pull"
      [] p = "fetch_wait"   -> "pull"
      [] p = "pull"         -> "pull_wait"
      [] p = "pull_wait"    -> "compose"
      [] p = "compose"      -> "compose_wait"
      [] p = "compose_wait" -> "finish"
      [] p = "finish"       -> "done"

\* the order of the statements of deploy() and of the two stage functions:
\* the position a request goes to when the step at position p neither
\* raises nor (at "frontend") skips
Continue(p) ==
    CASE p = "deploy"       -> "frontend"
      [] p = "frontend"     -> "front_git"
      [] p = "front_git"    -> "front_file"
      [] p = "front_file"   -> "front_run"
      [] p = "front_run"    -> "front_wait"
      [] p = "front_wait"   -> "backend"
      [] p = "backend"      -> "back_git"
      [] p = "back_git"     -> "fetch"
      [] p = "fetch"        -> "fetch_wait"
      [] p = "fetch_wait"   -> "pull"
      [] p = "pull"         -> "pull_wait"
      [] p = "pull_wait"    -> "compose"
      [] p = "compose"      -> "compose_wait"
      [] p = "compose_wait" -> "finish"
      [] p = "finish"       -> "done"

\* Receive on a server that takes a request only when none is in flight
Receive_one_at_a_time(r, payloads) ==
    /\ pc[r] = "idle"
    /\ \A o \in Requests : pc[o] \in {"idle", "error", "done"}
    /\ \E p \in payloads : req' = [req EXCEPT ![r] = p]
    /\ pc' = [pc EXCEPT ![r] = "deploy"]
    /\ UNCHANGED <<cwdir, envs, log, stageLog, err, response, calls, sink, fschecks>>

\* the request arrives: FastAPI parses the body into a DeployRequest and the
\* thread pool starts deploy() on it, whatever other requests are doing
Receive(r, payloads) ==
    /\ pc[r] = "idle"
    /\ \E p \in payloads : req' = [req EXCEPT ![r] = p]
    /\ pc' = [pc EXCEPT ![r] = "deploy"]
    /\ UNCHANGED <<cwdir, envs, log, stageLog, err, response, calls, sink, fschecks>>

\* the page loads: loadEnvs() fetches /api/envs and keeps the list
loadEnvs ==
    /\ envs = <<>>
    /\ envs' = list_envs
    /\ UNCHANGED <<cwdir, pc, req, log, stageLog, err, response, calls, sink, fschecks>>

\* what the page's deploy() posts when the operator picks an entry of the
\* list and leaves the fields onEnvChange() filled in as they are
FormPayloads ==
    { [ env_key       |-> envs[i].env_key,
        work_front_dir |-> envs[i].default_work_front_dir,
        work_back_dir  |-> envs[i].default_work_back_dir,
        branch         |-> envs[i].default_branch ] : i \in DOMAIN envs }

-----------------------------------------------------------------------------
(* deploy(): validation and start banner *)

\* FirstRefused with the loop over the frontend directory alone
FirstRefused_front_only(q) ==
    IF ~_is_under_allowed_roots(q.work_front_dir) THEN q.work_front_dir
    ELSE <<>>

\* the first p of [req.work_front_dir, req.work_back_dir] that the guard
\* refuses, <<>> when it lets both pass (no request path is empty)
FirstRefused(q) ==
    IF ~_is_under_allowed_roots(q.work_front_dir) THEN q.work_front_dir
    ELSE IF ~_is_under_allowed_roots(q.work_back_dir) THEN q.work_back_dir
    ELSE <<>>

InvalidEnvDetail == <<"Invalid env_key (not in allowlist).">>

PathNotAllowedDetail(p) ==
    <<"Path not allowed: ">> \o p \o <<NL, "Allowed roots: ">>
        \o ReprList(ALLOWED_ROOTS)

\* log after the four += of the start of deploy()
StartLog(env, q) ==
    _banner(<<"DEPLOY STARTED | ">> \o env.name)
        \o <<"work_front_dir: ">> \o q.work_front_dir \o <<NL>>
        \o <<"work_back_dir : ">> \o q.work_back_dir \o <<NL>>
        \o <<"branch        : ">> \o q.branch \o <<NL>>

deploy_validate(r) ==
    /\ pc[r] = "deploy"
    /\ LET q == req[r] IN
       IF q.env_key \notin DOMAIN ENVS_BY_KEY
       THEN /\ HTTPException(r, 400, InvalidEnvDetail)
            /\ UNCHANGED <<log, sink>>
       ELSE IF FirstRefused(q) # <<>>
       THEN /\ HTTPException(r, 400, PathNotAllowedDetail(FirstRefused(q)))
            /\ UNCHANGED <<log, sink>>
       ELSE LET env == ENVS_BY_KEY[q.env_key] IN
            /\ sink' = [sink EXCEPT ![r] = @ \o
                 << Printed(r, _banner(<<"DEPLOY STARTED | ">> \o env.name)),
                    Printed(r, <<"work_front_dir: ">> \o q.work_front_dir),
                    Printed(r, <<"work_back_dir : ">> \o q.work_back_dir),
                    Printed(r, <<"branch        : ">> \o q.branch) >>]
            /\ log' = [log EXCEPT ![r] = StartLog(env, q)]
            /\ pc' = [pc EXCEPT ![r] = Continue("deploy")]
            /\ UNCHANGED err
    /\ UNCHANGED <<cwdir, envs, req, stageLog, response, calls, fschecks>>

-----------------------------------------------------------------------------
(* Deploy steps *)

SkipMarker == <<"[Frontend] Skipped (not configured for this environment)", NL>>
FrontendDone == <<NL, "[Frontend] Done", NL>>

\* BackendDone copied from the frontend stage and not renamed
BackendDone_as_frontend == <<NL, "[Frontend] Done", NL>>

BackendDone == <<NL, "[Backend] Done", NL>>

\* _deploy_frontend that logs the skip and then, the return missing, goes on
_deploy_frontend_no_return(r) ==
    /\ pc[r] = "frontend"
    /\ LET env == ENVS_BY_KEY[req[r].env_key]
           banner == _banner(<<"FRONTEND DEPLOY | ">> \o env.name)
       IN  stageLog' = [stageLog EXCEPT ![r] =
               IF ~Truthy(env.front_deploy_script) THEN banner \o SkipMarker
               ELSE banner]
    /\ pc' = [pc EXCEPT ![r] = Continue("frontend")]
    /\ UNCHANGED <<cwdir, envs, req, log, err, response, calls, sink, fschecks>>

\* _deploy_frontend up to its first call: the banner and the skip
_deploy_frontend(r) ==
    /\ pc[r] = "frontend"
    /\ LET env == ENVS_BY_KEY[req[r].env_key]
           banner == _banner(<<"FRONTEND DEPLOY | ">> \o env.name)
       IN  IF ~Truthy(env.front_deploy_script)
           THEN /\ log' = [log EXCEPT ![r] = @ \o banner \o SkipMarker]
                /\ pc' = [pc EXCEPT ![r] = "backend"]
                /\ UNCHANGED stageLog
           ELSE /\ stageLog' = [stageLog EXCEPT ![r] = banner]
                /\ pc' = [pc EXCEPT ![r] = Continue("frontend")]
                /\ UNCHANGED log
    /\ UNCHANGED <<cwdir, envs, req, err, response, calls, sink, fschecks>>

\* _deploy_backend up to its first call: the banner
_deploy_backend(r) ==
    /\ pc[r] = "backend"
    /\ LET env == ENVS_BY_KEY[req[r].env_key]
       IN  stageLog' = [stageLog EXCEPT ![r] = _banner(<<"BACKEND DEPLOY | ">> \o env.name)]
    /\ pc' = [pc EXCEPT ![r] = Continue("backend")]
    /\ UNCHANGED <<cwdir, envs, req, log, err, response, calls, sink, fschecks>>

\* one probe of the filesystem
Probe(r, stage, fn, path, result) ==
    [ req |-> r, stage |-> stage, fn |-> fn, path |-> path, result |-> result ]

\* the three lines _deploy_backend logs once its directory is a repository
BackendInfo(env, q) ==
    <<"Backend Directory  : ">> \o q.work_back_dir \o <<NL>>
        \o <<"Branch             : ">> \o q.branch \o <<NL>>
        \o <<"Docker Compose     : ">> \o env.backend_compose_command \o <<NL>>

\* _assert_git_repo(path), called by either stage, and the lines the
\* backend stage logs after it; the filesystem answers each probe
_assert_git_repo(r) ==
    /\ pc[r] \in {"front_git", "back_git"}
    /\ LET stage == StageOf(pc[r])
           q == req[r]
           path == IF stage = "frontend" THEN q.work_front_dir ELSE q.work_back_dir
           dotgit == PathJoin(path, <<".git">>)
       IN  \E isdir \in BOOLEAN, isgit \in BOOLEAN :
             IF ~isdir
             THEN /\ fschecks' = [fschecks EXCEPT ![r] =
                        Append(@, Probe(r, stage, "isdir", path, FALSE))]
                  /\ HTTPException(r, 400, <<"Directory not found: ">> \o path)
                  /\ UNCHANGED stageLog
             ELSE IF ~isgit
             THEN /\ fschecks' = [fschecks EXCEPT ![r] = @ \o
                        << Probe(r, stage, "isdir", path, TRUE),
                           Probe(r, stage, "isdir", dotgit, FALSE) >>]
                  /\ HTTPException(r, 400, <<"Not a git repo (.git not found): ">> \o path)
                  /\ UNCHANGED stageLog
             ELSE /\ fschecks' = [fschecks EXCEPT ![r] = @ \o
                        << Probe(r, stage, "isdir", path, TRUE),
                           Probe(r, stage, "isdir", dotgit, TRUE) >>]
                  /\ pc' = [pc EXCEPT ![r] = Continue(pc[r])]
                  /\ IF stage = "frontend"
                     THEN UNCHANGED stageLog
                     ELSE stageLog' = [stageLog EXCEPT ![r] =
                              @ \o BackendInfo(ENVS_BY_KEY[q.env_key], q)]
                  /\ UNCHANGED err
    /\ UNCHANGED <<cwdir, envs, req, log, response, calls, sink>>

\* script_path = os.path.join(work_front_dir, env.front_deploy_script)
ScriptPath(q) ==
    PathJoin(q.work_front_dir, ENVS_BY_KEY[q.env_key].front_deploy_script)

\* _assert_file_exists(script_path) and the lines the frontend stage logs
\* after it
_assert_file_exists(r) ==
    /\ pc[r] = "front_file"
    /\ LET q == req[r]
           script_path == ScriptPath(q)
       IN  \E isfile \in BOOLEAN :
             /\ fschecks' = [fschecks EXCEPT ![r] =
                    Append(@, Probe(r, "frontend", "isfile", script_path, isfile))]
             /\ IF ~isfile
                THEN /\ HTTPException(r, 400, <<"File not found: ">> \o script_path)
                     /\ UNCHANGED stageLog
                ELSE /\ stageLog' = [stageLog EXCEPT ![r] =
                            @ \o <<"Frontend Directory : ">> \o q.work_front_dir \o <<NL>>
                              \o <<"Deploy Script      : ">> \o script_path \o <<NL>>
                              \o <<"Branch             : ">> \o q.branch \o <<NL>>]
                     /\ pc' = [pc EXCEPT ![r] = Continue("front_file")]
                     /\ UNCHANGED err
    /\ UNCHANGED <<cwdir, envs, req, log, response, calls, sink>>

-----------------------------------------------------------------------------
(* Command runner *)

RunPcs == {"front_run", "fetch", "pull", "compose"}
WaitPcs == {"front_wait", "fetch_wait", "pull_wait", "compose_wait"}

\* the argv the stage builds at position p
CmdAt(p, q) ==
    CASE p \in {"front_run", "front_wait"} -> << <<"bash">>, ScriptPath(q), q.branch >>
      [] p \in {"fetch", "fetch_wait"}     -> << <<"git">>, <<"fetch">>, <<"origin">> >>
      [] p \in {"pull", "pull_wait"}       -> << <<"git">>, <<"pull">>, <<"origin">>, q.branch >>
      [] p \in {"compose", "compose_wait"} ->
             ShlexSplit(ENVS_BY_KEY[q.env_key].backend_compose_command)

\* CwdAt with every command run in the backend directory
CwdAt_always_backend(p, q) == q.work_back_dir

\* the cwd the stage passes at position p
CwdAt(p, q) ==
    IF StageOf(p) = "frontend" THEN q.work_front_dir ELSE q.work_back_dir

\* the index in calls of the last subprocess request r spawned
LastCall(r) ==
    CHOOSE i \in DOMAIN calls :
        calls[i].req = r /\ \A j \in DOMAIN calls : calls[j].req = r => j <= i

\* run_cmd_spawn of a runner that does not print the command block
run_cmd_spawn_silent(r) ==
    /\ pc[r] \in RunPcs
    /\ LET cmd == CmdAt(pc[r], req[r])
           cwd == CwdAt(pc[r], req[r])
       IN  /\ stageLog' = [stageLog EXCEPT ![r] = @ \o _cmd_block(cmd, cwd)]
           /\ UNCHANGED sink
           /\ calls' = Append(calls,
                  [ req |-> r, stage |-> StageOf(pc[r]), argv |-> cmd, cwd |-> cwd,
                    exited |-> FALSE, returncode |-> 0, stdout |-> <<>>,
                    stderr |-> <<>> ])
    /\ pc' = [pc EXCEPT ![r] = Continue(pc[r])]
    /\ UNCHANGED <<cwdir, envs, req, log, err, response, fschecks>>

\* the stage logs the command block, then _run_cmd_capture prints it and
\* subprocess.run spawns the command and waits
run_cmd_spawn(r) ==
    /\ pc[r] \in RunPcs
    /\ LET cmd == CmdAt(pc[r], req[r])
           cwd == CwdAt(pc[r], req[r])
       IN  /\ stageLog' = [stageLog EXCEPT ![r] = @ \o _cmd_block(cmd, cwd)]
           /\ sink' = [sink EXCEPT ![r] = Append(@, Printed(r, _cmd_block(cmd, cwd)))]
           /\ calls' = Append(calls,
                  [ req |-> r, stage |-> StageOf(pc[r]), argv |-> cmd, cwd |-> cwd,
                    exited |-> FALSE, returncode |-> 0, stdout |-> <<>>,
                    stderr |-> <<>> ])
    /\ pc' = [pc EXCEPT ![r] = Continue(pc[r])]
    /\ UNCHANGED <<cwdir, envs, req, log, err, response, fschecks>>

\* CombinedOutput with the two streams in the other order
CombinedOutput_stderr_first(p) == p.stderr \o p.stdout

\* out = (p.stdout or "") + (p.stderr or "")
CombinedOutput(p) == p.stdout \o p.stderr

\* CommandFailed that takes every exit status for success
CommandFailed_never(p) == FALSE

\* if p.returncode != 0
CommandFailed(p) == p.returncode # 0

\* the detail of the HTTPException _run_cmd_capture raises
FailureDetail(cmd, cwd, p) ==
    _banner(<<"COMMAND FAILED">>) \o _cmd_block(cmd, cwd)
        \o <<"Exit Code: ", ToString(p.returncode), NL, NL>>
        \o CombinedOutput(p)

\* what _run_cmd_capture prints once the command has ended
OutputBox(r, out) ==
    IF Strip(out) # <<>>
    THEN << Printed(r, <<"<box OUTPUT top>">>),
            Printed(r, RStrip(out)),
            Printed(r, <<"<box OUTPUT bottom>">>) >>
    ELSE <<>>

\* the subprocess ends: _run_cmd_capture prints its output and raises or
\* returns, and the stage goes on to its next command or returns to
\* deploy()
run_cmd_exit(r, outcomes) ==
    /\ pc[r] \in WaitPcs
    /\ \E p \in outcomes :
         LET cmd == CmdAt(pc[r], req[r])
             cwd == CwdAt(pc[r], req[r])
             out == CombinedOutput(p)
         IN  /\ calls' = [calls EXCEPT ![LastCall(r)] =
                    [@ EXCEPT !.exited = TRUE, !.returncode = p.returncode,
                              !.stdout = p.stdout, !.stderr = p.stderr]]
             /\ sink' = [sink EXCEPT ![r] = @ \o OutputBox(r, out)]
             /\ IF CommandFailed(p)
                THEN /\ HTTPException(r, 500, FailureDetail(cmd, cwd, p))
                     /\ UNCHANGED <<log, stageLog>>
                ELSE /\ UNCHANGED err
                     /\ pc' = [pc EXCEPT ![r] = Continue(pc[r])]
                     /\ IF pc[r] \in {"front_wait", "compose_wait"}
                        THEN \* the last command of its stage: the stage returns
                             /\ log' = [log EXCEPT ![r] =
                                    @ \o stageLog[r] \o out \o
                                      (IF pc[r] = "front_wait" THEN FrontendDone
                                                              ELSE BackendDone)]
                             /\ stageLog' = [stageLog EXCEPT ![r] = <<>>]
                        ELSE /\ stageLog' = [stageLog EXCEPT ![r] = @ \o out]
                             /\ UNCHANGED log
    /\ UNCHANGED <<cwdir, envs, req, response, fschecks>>

\* deploy() after both stages returned: the finish banner and the result
deploy_finish(r) ==
    /\ pc[r] = "finish"
    /\ LET env == ENVS_BY_KEY[req[r].env_key]
           banner == _banner(<<"DEPLOY FINISHED | ">> \o env.name)
       IN  /\ log' = [log EXCEPT ![r] = @ \o banner]
           /\ sink' = [sink EXCEPT ![r] = Append(@, Printed(r, banner))]
           /\ response' = [response EXCEPT ![r] =
                  [ ok |-> TRUE, env |-> env.name, output |-> log[r] \o banner ]]
    /\ pc' = [pc EXCEPT ![r] = Continue("finish")]
    /\ UNCHANGED <<cwdir, envs, req, stageLog, err, calls, fschecks>>

-----------------------------------------------------------------------------
(* Specifications *)

\* one request, every input
Next ==
    \E r \in {"r1"} :
        \/ Receive(r, RequestInputs)
        \/ deploy_validate(r)
        \/ _deploy_frontend(r)
        \/ _deploy_backend(r)
        \/ _assert_git_repo(r)
        \/ _assert_file_exists(r)
        \/ run_cmd_spawn(r)
        \/ run_cmd_exit(r, ProcessOutcomes)
        \/ deploy_finish(r)

Spec == Init /\ [][Next]_vars

\* what the two requests of the concurrent specification may send, and how
\* their subprocesses may end
ConcRequestInputs == DeployRequest({<<"TEST">>, <<"DEV">>}, {BackDir}, {<<"main">>})
ConcOutcomes == Completed(0..MaxExit, {<<>>}, {<<"conflict", NL>>})

\* the steps of request r in the concurrent specification
StepConc(r) ==
    \/ Receive(r, ConcRequestInputs)
    \/ deploy_validate(r)
    \/ _deploy_frontend(r)
    \/ _deploy_backend(r)
    \/ _assert_git_repo(r)
    \/ _assert_file_exists(r)
    \/ run_cmd_spawn(r)
    \/ run_cmd_exit(r, ConcOutcomes)
    \/ deploy_finish(r)

\* the thread pool runs the handlers of all requests, interleaved
NextConc == \E r \in Requests : StepConc(r)

SpecConc == Init /\ [][NextConc]_vars

\* deploy() gets past its validation, into the frontend stage or out by an
\* exception: the step deploy_validate(r) takes, told by where r goes
ValidationEnds(r) ==
    /\ pc[r] = "deploy"
    /\ \E p \in {Continue("deploy"), "error"} : pc' = [pc EXCEPT ![r] = p]

\* the steps of the two stages and the return of deploy(), which the
\* worker thread of request r takes by itself
HandlerStep(r) ==
    \/ _deploy_frontend(r)
    \/ _deploy_backend(r)
    \/ _assert_git_repo(r)
    \/ _assert_file_exists(r)
    \/ run_cmd_spawn(r)
    \/ deploy_finish(r)

\* Spec where the worker thread keeps running and every subprocess that
\* was spawned terminates
SpecLive ==
    /\ Spec
    /\ WF_pc(ValidationEnds("r1"))
    /\ WF_vars(HandlerStep("r1"))
    /\ WF_vars(run_cmd_exit("r1", ProcessOutcomes))

\* one request for a known environment with allowed directories, whose
\* commands may also write nothing but a newline
SinkRequestInputs ==
    DeployRequest({<<"TEST">>, <<"DEV">>}, {FrontDir, BackDir}, BranchInputs)
SinkOutcomes == Completed(0..MaxExit, StdoutChoices \cup {<<NL>>}, StderrChoices)

NextSink ==
    \E r \in {"r1"} :
        \/ Receive(r, SinkRequestInputs)
        \/ deploy_validate(r)
        \/ _deploy_frontend(r)
        \/ _deploy_backend(r)
        \/ _assert_git_repo(r)
        \/ _assert_file_exists(r)
        \/ run_cmd_spawn(r)
        \/ run_cmd_exit(r, SinkOutcomes)
        \/ deploy_finish(r)

SpecSink == Init /\ [][NextSink]_vars

\* the paths of at most MaxSegs segments, each "..", "." or a directory
\* name, after nothing (a relative path), after the filesystem root or after
\* one of three directories, with or without a trailing separator
PathSegments == { <<"..">>, <<".">>, <<"ecosystem">>, <<"elyvium-ecosystem">> }
PathPrefixes ==
    { <<>>,
      <<Slash, "home", Slash, "elyvium", Slash, "projects">>,
      EcosystemDir,
      EcosystemDir \o <<"-evil">> }
SegmentLists == UNION { [1..n -> PathSegments] : n \in 0..MaxSegs }
RECURSIVE Below(_, _)
Below(prefix, segs) ==
    IF segs = <<>> THEN prefix
    ELSE Below(prefix \o <<Slash>> \o segs[1], Tail(segs))
BoundedPaths ==
    LET plain == { Below(pre, segs) : pre \in PathPrefixes, segs \in SegmentLists }
                   \cup { Join(segs, Slash) : segs \in SegmentLists }
    IN  { p \o t : p \in plain \ {<<>>}, t \in {<<>>, <<Slash>>} }

\* one TEST request with one of these paths as one of its two directories
GuardRequestInputs ==
    { [ env_key |-> <<"TEST">>, work_front_dir |-> p, work_back_dir |-> BackDir,
        branch |-> <<"main">> ] : p \in BoundedPaths }
    \cup
    { [ env_key |-> <<"TEST">>, work_front_dir |-> FrontDir, work_back_dir |-> p,
        branch |-> <<"main">> ] : p \in BoundedPaths }

NextGuard ==
    \E r \in {"r1"} :
        \/ Receive(r, GuardRequestInputs)
        \/ deploy_validate(r)
        \/ _deploy_frontend(r)
        \/ _deploy_backend(r)
        \/ _assert_git_repo(r)
        \/ _assert_file_exists(r)
        \/ run_cmd_spawn(r)
        \/ run_cmd_exit(r, ConcOutcomes)
        \/ deploy_finish(r)

SpecGuard == Init /\ [][NextGuard]_vars

\* one request, posted from the page once the page has loaded the
\* environment list
NextUI ==
    \/ loadEnvs
    \/ \E r \in {"r1"} :
        \/ Receive(r, FormPayloads)
        \/ deploy_validate(r)
        \/ _deploy_frontend(r)
        \/ _deploy_backend(r)
        \/ _assert_git_repo(r)
        \/ _assert_file_exists(r)
        \/ run_cmd_spawn(r)
        \/ run_cmd_exit(r, ProcessOutcomes)
        \/ deploy_finish(r)

SpecUI == Init /\ [][NextUI]_vars

-----------------------------------------------------------------------------
(* What an observer of one request sees *)

\* the subprocesses request r spawned, in order (the command spy)
CallsOf(r) == SelectSeq(calls, LAMBDA c : c.req = r)

\* the filesystem probes request r made, in order
ChecksOf(r) == fschecks[r]

\* what request r printed, in order
SinkOf(r) == sink[r]

Validated(r) == pc[r] \notin {"idle", "deploy"}
Ended(r) == pc[r] \in {"error", "done"}

KnownEnv(q) == \E i \in DOMAIN ENVS : ENVS[i].key = q.env_key

\* the path lies, once made absolute and normal, under no allowed root
Disallowed(path) ==
    \A i \in DOMAIN ALLOWED_ROOTS :
        ~StartsWith(AbsPath(path, cwdir), ALLOWED_ROOTS[i])

\* the kinds of error, told apart by what the client receives
IsEnvError(e) ==
    e.status_code = 400 /\ StartsWith(e.detail, <<"Invalid env_key (not in allowlist).">>)
IsPathError(e) ==
    e.status_code = 400 /\ StartsWith(e.detail, <<"Path not allowed: ">>)
IsPreconditionError(e) ==
    /\ e.status_code = 400
    /\ \/ StartsWith(e.detail, <<"Directory not found: ">>)
       \/ StartsWith(e.detail, <<"Not a git repo (.git not found): ">>)
       \/ StartsWith(e.detail, <<"File not found: ">>)
IsCommandError(e) == e.status_code = 500

-----------------------------------------------------------------------------
(* C1 *)

\* C1 as stated: every request naming a path that is, after normalization,
\* under no allowed root ends in a path error with no command invoked.
C1_AsStated ==
    \A r \in Requests :
        ( /\ Validated(r)
          /\ Disallowed(req[r].work_front_dir) \/ Disallowed(req[r].work_back_dir) )
        => /\ pc[r] = "error"
           /\ IsPathError(err[r])
           /\ CallsOf(r) = <<>>

\* C1, amended: a request naming a path that is, after normalization, under
\* no allowed root is rejected with no command invoked (and no filesystem
\* probe); the error is the path error, naming the first such path, when
\* the environment key is known, and the environment error when it is not.
C1_DisallowedPathRejected ==
    \A r \in Requests :
        ( /\ Validated(r)
          /\ Disallowed(req[r].work_front_dir) \/ Disallowed(req[r].work_back_dir) )
        => /\ pc[r] = "error"
           /\ CallsOf(r) = <<>>
           /\ ChecksOf(r) = <<>>
           /\ IF KnownEnv(req[r])
              THEN /\ IsPathError(err[r])
                   /\ StartsWith(err[r].detail,
                         <<"Path not allowed: ">> \o
                           (IF Disallowed(req[r].work_front_dir)
                            THEN req[r].work_front_dir ELSE req[r].work_back_dir)
                           \o <<NL>>)
              ELSE IsEnvError(err[r])

\* a request of a known environment whose frontend directory is allowed and
\* whose backend directory starts with the root's text but leaves it by ".."
\* has been rejected with the path error
C1_Witness ==
    \E r \in Requests :
        /\ pc[r] = "error"
        /\ KnownEnv(req[r])
        /\ ~Disallowed(req[r].work_front_dir)
        /\ req[r].work_back_dir = EcosystemDir \o <<Slash, "..", Slash, "secrets">>
        /\ IsPathError(err[r])

-----------------------------------------------------------------------------
(* C2 *)

\* the captured output an error detail carries: what follows its
\* "Exit Code: <n>" line and the blank line after it
CapturedOutput(detail) ==
    LET i == CHOOSE k \in DOMAIN detail :
                 detail[k] = "Exit Code: " /\ \A j \in 1..(k - 1) : detail[j] # "Exit Code: "
    IN  SubSeq(detail, i + 4, Len(detail))

\* C2: once a command of a request has exited non-zero no later command of
\* that request is invoked, the request ends in the command error, and the
\* captured output that error carries is exactly the failing command's
\* stdout followed by its stderr (after the line naming its exit code).
C2_FailureStopsPipeline ==
    \A r \in Requests :
        LET cs == CallsOf(r) IN
        /\ \A i \in DOMAIN cs, j \in DOMAIN cs :
               i < j => cs[i].exited /\ cs[i].returncode = 0
        /\ (\E i \in DOMAIN cs : cs[i].exited /\ cs[i].returncode # 0)
               => pc[r] = "error" /\ IsCommandError(err[r])
        /\ (pc[r] = "error" /\ IsCommandError(err[r]))
               => /\ cs # <<>>
                  /\ LET c == cs[Len(cs)] IN
                     /\ c.exited /\ c.returncode # 0
                     /\ Contains(err[r].detail,
                                 <<"Exit Code: ", ToString(c.returncode), NL, NL>>)
                     /\ CapturedOutput(err[r].detail) = c.stdout \o c.stderr

\* git pull exited 1 after git fetch exited 0, with text on stdout and
\* "conflict" on stderr: the request has ended in the command error and
\* compose was never invoked
C2_Witness ==
    \E r \in Requests :
        LET cs == CallsOf(r) IN
        /\ pc[r] = "error" /\ IsCommandError(err[r])
        /\ Len(cs) = 2
        /\ cs[1].argv = << <<"git">>, <<"fetch">>, <<"origin">> >>
        /\ cs[2].argv[2] = <<"pull">>
        /\ cs[2].returncode = 1
        /\ cs[2].stdout # <<>>
        /\ cs[2].stderr = <<"conflict", NL>>

-----------------------------------------------------------------------------
(* C3 *)

\* the transcript request r had accumulated when it failed: the log of
\* deploy(), the log of the stage that was running and, when a command
\* failed, that command's output
AccumulatedTranscript(r) ==
    LET cs == CallsOf(r) IN
    log[r] \o stageLog[r] \o
        (IF IsCommandError(err[r]) /\ cs # <<>>
         THEN cs[Len(cs)].stdout \o cs[Len(cs)].stderr ELSE <<>>)

\* C3 as stated: the detail of the error a failed step returns contains the
\* whole transcript accumulated up to and including the failing command's
\* output.
C3_AsStated ==
    \A r \in Requests :
        (pc[r] = "error" /\ log[r] # <<>>)
            => Contains(err[r].detail, AccumulatedTranscript(r))

-----------------------------------------------------------------------------
(* C4 and C7 *)

HasFrontendScript(q) ==
    \E i \in DOMAIN ENVS : ENVS[i].key = q.env_key /\ ENVS[i].front_deploy_script # <<>>

\* C4 as stated: a request that ends with a precondition error has invoked
\* no command at all.
C4_AsStated ==
    \A r \in Requests :
        (pc[r] = "error" /\ IsPreconditionError(err[r])) => CallsOf(r) = <<>>

\* C4, amended: a request that ends with a precondition error has invoked no
\* command of the stage whose check failed: none at all when the check was
\* a frontend one or the environment has no frontend script, and exactly
\* the frontend script, exited zero, when a backend check failed after a
\* frontend deploy.
C4_PreconditionShortCircuits ==
    \A r \in Requests :
        (pc[r] = "error" /\ IsPreconditionError(err[r])) =>
            LET ch == ChecksOf(r)
                cs == CallsOf(r)
            IN  /\ ch # <<>>
                /\ ch[Len(ch)].result = FALSE
                /\ \A i \in 1..(Len(ch) - 1) : ch[i].result = TRUE
                /\ IF ch[Len(ch)].stage = "backend" /\ HasFrontendScript(req[r])
                   THEN /\ Len(cs) = 1
                        /\ cs[1].stage = "frontend"
                        /\ cs[1].exited /\ cs[1].returncode = 0
                   ELSE cs = <<>>

\* the frontend script ran and exited zero, then the backend directory
\* turned out not to be a git repository
C4_Witness ==
    \E r \in Requests :
        /\ pc[r] = "error"
        /\ StartsWith(err[r].detail, <<"Not a git repo (.git not found): ">>)
        /\ Len(CallsOf(r)) = 1
        /\ CallsOf(r)[1].argv[1] = <<"bash">>
        /\ ChecksOf(r)[Len(ChecksOf(r))].stage = "backend"

\* C7: when a precondition check of a stage fails, no command of that stage
\* has executed or ever executes and no later stage runs: after a frontend
\* check failed the backend stage is never entered (no backend banner, probe
\* or command), and after either no result is returned.
C7_PreconditionStopsStage ==
    \A r \in Requests :
        (pc[r] = "error" /\ IsPreconditionError(err[r])) =>
            LET ch == ChecksOf(r)
                cs == CallsOf(r)
                failed == ch[Len(ch)].stage
            IN  /\ \A i \in DOMAIN cs : cs[i].stage # failed
                /\ failed = "frontend" =>
                       /\ \A i \in DOMAIN ch : ch[i].stage = "frontend"
                       /\ \A i \in DOMAIN cs : cs[i].stage = "frontend"
                       /\ ~Contains(log[r] \o stageLog[r], <<"BACKEND DEPLOY | ">>)
                /\ response[r] = NoResponse
                /\ \A i \in DOMAIN SinkOf(r) :
                       ~Contains(SinkOf(r)[i].text, <<"DEPLOY FINISHED | ">>)

\* the frontend directory is a git repository but the deploy script is
\* missing: the request ended with "File not found" after three probes
C7_Witness ==
    \E r \in Requests :
        /\ pc[r] = "error"
        /\ StartsWith(err[r].detail, <<"File not found: ">>)
        /\ Len(ChecksOf(r)) = 3
        /\ CallsOf(r) = <<>>

-----------------------------------------------------------------------------
(* C5 *)

PassedValidation(r) ==
    /\ Validated(r)
    /\ KnownEnv(req[r])
    /\ ~Disallowed(req[r].work_front_dir)
    /\ ~Disallowed(req[r].work_back_dir)

\* the frontend deploy was attempted: the stage probed the filesystem or ran
\* a command
FrontendAttempted(r) ==
    \/ \E i \in DOMAIN fschecks[r] : fschecks[r][i].stage = "frontend"
    \/ \E i \in DOMAIN calls : calls[i].req = r /\ calls[i].stage = "frontend"

\* the frontend deploy failed: a probe of the stage said no, or its command
\* exited non-zero
FrontendFailed(r) ==
    \/ \E i \in DOMAIN fschecks[r] :
          fschecks[r][i].stage = "frontend" /\ ~fschecks[r][i].result
    \/ \E i \in DOMAIN calls :
          /\ calls[i].req = r /\ calls[i].stage = "frontend"
          /\ calls[i].exited /\ calls[i].returncode # 0

\* the backend deploy was attempted: _deploy_backend was entered
BackendAttempted(r) == Contains(log[r] \o stageLog[r], <<"BACKEND DEPLOY | ">>)

\* C5 as stated: of a request that passed validation the frontend deploy is
\* attempted only if the environment has a frontend script, and the backend
\* deploy is attempted always.
C5_AsStated ==
    \A r \in Requests :
        PassedValidation(r) =>
            /\ FrontendAttempted(r) => HasFrontendScript(req[r])
            /\ Ended(r) => BackendAttempted(r)

\* C5, amended: of a request that passed validation the frontend deploy is
\* attempted only if the environment has a frontend script, and the backend
\* deploy is attempted exactly when the frontend stage did not fail (it was
\* skipped, or its checks held and its script exited zero).
C5_StagesAttempted ==
    \A r \in Requests :
        PassedValidation(r) =>
            /\ FrontendAttempted(r) => HasFrontendScript(req[r])
            /\ Ended(r) => (BackendAttempted(r) <=> ~FrontendFailed(r))

\* a request whose frontend deploy was attempted and did not fail has ended
\* after its backend deploy was attempted
C5_Witness ==
    \E r \in Requests :
        /\ PassedValidation(r) /\ Ended(r)
        /\ FrontendAttempted(r) /\ ~FrontendFailed(r)
        /\ BackendAttempted(r)

-----------------------------------------------------------------------------
(* C6 *)

\* the backend pipeline of a request, written out
ExpectedBackendCommands(q) ==
    << << <<"git">>, <<"fetch">>, <<"origin">> >>,
       << <<"git">>, <<"pull">>, <<"origin">>, q.branch >>,
       IF q.env_key = <<"TEST">>
       THEN << <<"docker">>, <<"compose">>, <<"-p">>, <<"elyvium-test">>,
               <<"--env-file">>, <<".env.test">>, <<"up">>, <<"--build">>, <<"-d">> >>
       ELSE << <<"docker">>, <<"compose">>, <<"--env-file">>, <<".env.dev">>,
               <<"up">>, <<"--build">>, <<"-d">> >> >>

BackendCallsOf(r) == SelectSeq(CallsOf(r), LAMBDA c : c.stage = "backend")

\* C6: at every point of a request the commands its backend stage has issued
\* are a prefix of git fetch origin, git pull origin <branch>, the tokenized
\* compose command, each with the supplied backend directory as working
\* directory and each issued after the one before it exited zero; a request
\* whose backend stage completed issued exactly these three.
C6_BackendSequence ==
    \A r \in Requests :
        LET bs == BackendCallsOf(r)
            expected == ExpectedBackendCommands(req[r])
        IN  /\ Len(bs) <= 3
            /\ \A i \in DOMAIN bs :
                   /\ bs[i].argv = expected[i]
                   /\ bs[i].cwd = req[r].work_back_dir
                   /\ i < Len(bs) => bs[i].exited /\ bs[i].returncode = 0
            /\ pc[r] \in {"finish", "done"} => Len(bs) = 3

\* a TEST request on branch main has completed: three backend commands
C6_Witness ==
    \E r \in Requests :
        /\ pc[r] = "done"
        /\ req[r].env_key = <<"TEST">>
        /\ req[r].branch = <<"main">>
        /\ Len(BackendCallsOf(r)) = 3
        /\ Len(BackendCallsOf(r)[3].argv) = 9

-----------------------------------------------------------------------------
(* C8 *)

\* C8: for an environment without a frontend script the frontend stage runs
\* no subprocess and probes nothing, and what it adds to the transcript,
\* right after the start lines, is its banner followed by the skip marker
\* and nothing else: whatever follows is the backend stage's banner.
C8_FrontendSkipped ==
    \A r \in Requests :
        (PassedValidation(r) /\ ~HasFrontendScript(req[r])) =>
            /\ ~FrontendAttempted(r)
            /\ pc[r] # "frontend" =>
                 LET env == ENVS_BY_KEY[req[r].env_key]
                     start == StartLog(env, req[r])
                     stage == _banner(<<"FRONTEND DEPLOY | ">> \o env.name) \o
                                <<"[Frontend] Skipped (not configured for this environment)", NL>>
                     rest == SubSeq(log[r], Len(start) + Len(stage) + 1, Len(log[r]))
                 IN  /\ StartsWith(log[r], start \o stage)
                     /\ rest = <<>> \/ StartsWith(rest, _banner(<<"BACKEND DEPLOY | ">> \o env.name))
                     /\ stageLog[r] = <<>> \/ StartsWith(stageLog[r], _banner(<<"BACKEND DEPLOY | ">> \o env.name))

\* a DEV request has completed: its transcript carries the skip marker and
\* its three commands were all backend ones
C8_Witness ==
    \E r \in Requests :
        /\ pc[r] = "done"
        /\ req[r].env_key = <<"DEV">>
        /\ Contains(response[r].output, <<"[Frontend] Skipped (not configured for this environment)">>)
        /\ Len(CallsOf(r)) = 3

-----------------------------------------------------------------------------
(* C9 *)

\* the part of C9 that holds: an input error comes before any side effect
\* (no command, no probe, nothing printed), the key is checked before the
\* paths, and the path error names the refused path
C9_InputErrorsBeforeSideEffects ==
    \A r \in Requests :
        (Validated(r) /\ ~PassedValidation(r)) =>
            /\ pc[r] = "error"
            /\ CallsOf(r) = <<>> /\ ChecksOf(r) = <<>> /\ SinkOf(r) = <<>>
            /\ IF KnownEnv(req[r]) THEN IsPathError(err[r]) ELSE IsEnvError(err[r])
            /\ IsPathError(err[r]) =>
                   \/ /\ Disallowed(req[r].work_front_dir)
                      /\ Contains(err[r].detail, req[r].work_front_dir)
                   \/ /\ Disallowed(req[r].work_back_dir)
                      /\ Contains(err[r].detail, req[r].work_back_dir)

\* C9 as stated: an input error comes before any side effect and reports the
\* offending value: the unknown key, respectively the disallowed path.
C9_AsStated ==
    /\ C9_InputErrorsBeforeSideEffects
    /\ \A r \in Requests :
           (pc[r] = "error" /\ IsEnvError(err[r]))
               => Contains(err[r].detail, req[r].env_key)

-----------------------------------------------------------------------------
(* C10 *)

\* C10, the absence of serialization: whatever the other requests are doing,
\* a request that has arrived can start and a request that stands at a
\* command can spawn it; none waits for another.
C10_NothingSerializes ==
    \A r \in Requests :
        /\ pc[r] = "idle" => ENABLED Receive(r, ConcRequestInputs)
        /\ pc[r] \in RunPcs => ENABLED run_cmd_spawn(r)

\* C10, the race: request a has issued its first and its last backend
\* command (git fetch, compose) in one working tree and, between the two, a
\* different request b has run git pull in the same working tree
C10_Witness ==
    \E i \in DOMAIN calls, j \in DOMAIN calls, k \in DOMAIN calls :
        /\ i < j /\ j < k
        /\ calls[i].req = calls[k].req
        /\ calls[j].req # calls[i].req
        /\ calls[i].argv[2] = <<"fetch">>
        /\ calls[j].argv[2] = <<"pull">>
        /\ calls[k].argv[1] = <<"docker">>
        /\ calls[i].cwd = calls[j].cwd /\ calls[j].cwd = calls[k].cwd
        /\ AbsPath(calls[j].cwd, cwdir) = AbsPath(req[calls[i].req].work_back_dir, cwdir)

-----------------------------------------------------------------------------
(* C11 *)

FrontendCallsOf(r) == SelectSeq(CallsOf(r), LAMBDA c : c.stage = "frontend")

\* the command block and the output of each call of cs, one call after the
\* other
RECURSIVE CommandTranscripts(_)
CommandTranscripts(cs) ==
    IF cs = <<>> THEN <<>>
    ELSE _cmd_block(cs[1].argv, cs[1].cwd) \o cs[1].stdout \o cs[1].stderr
             \o CommandTranscripts(Tail(cs))

\* the transcript of the frontend stage of a request that went through it
FrontendTranscript(r) ==
    LET q == req[r]
        env == ENVS_BY_KEY[q.env_key]
    IN  _banner(<<"FRONTEND DEPLOY | ">> \o env.name) \o
        (IF HasFrontendScript(q)
         THEN <<"Frontend Directory : ">> \o q.work_front_dir \o <<NL>>
                \o <<"Deploy Script      : ">> \o FrontendCallsOf(r)[1].argv[2] \o <<NL>>
                \o <<"Branch             : ">> \o q.branch \o <<NL>>
                \o CommandTranscripts(FrontendCallsOf(r))
                \o <<NL, "[Frontend] Done", NL>>
         ELSE <<"[Frontend] Skipped (not configured for this environment)", NL>>)

\* the transcript of the backend stage of a request that went through it
BackendTranscript(r) ==
    LET q == req[r]
        env == ENVS_BY_KEY[q.env_key]
    IN  _banner(<<"BACKEND DEPLOY | ">> \o env.name)
            \o <<"Backend Directory  : ">> \o q.work_back_dir \o <<NL>>
            \o <<"Branch             : ">> \o q.branch \o <<NL>>
            \o <<"Docker Compose     : ">> \o env.backend_compose_command \o <<NL>>
            \o CommandTranscripts(BackendCallsOf(r))
            \o <<NL, "[Backend] Done", NL>>

\* where in text the stage banner of the given title starts (the title is
\* the seventh atom of a banner), 0 if it does not occur
BannerStart(text, title) ==
    IF \E k \in DOMAIN text : text[k] = title
    THEN (CHOOSE k \in DOMAIN text :
              text[k] = title /\ \A j \in 1..(k - 1) : text[j] # title) - 6
    ELSE 0

\* C11 as stated: the transcript of a successful request holds the frontend
\* stage transcript and then the backend stage transcript, each beginning
\* with its stage banner and ending with its completion marker.
C11_AsStated ==
    \A r \in Requests :
        pc[r] = "done" =>
            LET out == response[r].output
                f == BannerStart(out, "FRONTEND DEPLOY | ")
                b == BannerStart(out, "BACKEND DEPLOY | ")
                e == BannerStart(out, "DEPLOY FINISHED | ")
            IN  /\ 0 < f /\ f < b /\ b < e
                /\ SubSeq(out, b - 3, b - 1) = <<NL, "[Frontend] Done", NL>>
                /\ SubSeq(out, e - 3, e - 1) = <<NL, "[Backend] Done", NL>>

\* C11, amended: the transcript of a request only ever grows at its end,
\* and the transcript of a successful request is, between the start lines
\* and the finish banner, the frontend stage transcript followed by the
\* backend stage transcript, each beginning with its stage banner and
\* listing its command blocks and outputs in execution order; the backend
\* transcript and the transcript of a frontend stage that ran end with the
\* stage's completion marker, that of a skipped frontend stage with the skip
\* marker.
C11_TranscriptOrder ==
    /\ [][\A r \in Requests :
              StartsWith(log'[r] \o stageLog'[r], log[r] \o stageLog[r])]_vars
    /\ [](\A r \in Requests :
              pc[r] = "done" =>
                  /\ response[r].output = log[r]
                  /\ log[r] = StartLog(ENVS_BY_KEY[req[r].env_key], req[r])
                                \o FrontendTranscript(r) \o BackendTranscript(r)
                                \o _banner(<<"DEPLOY FINISHED | ">>
                                             \o ENVS_BY_KEY[req[r].env_key].name))

\* a TEST request has completed whose frontend script and whose compose
\* command both wrote output
C11_Witness ==
    \E r \in Requests :
        /\ pc[r] = "done"
        /\ req[r].env_key = <<"TEST">>
        /\ FrontendCallsOf(r)[1].stdout # <<>>
        /\ BackendCallsOf(r)[3].stdout # <<>>
        /\ BackendCallsOf(r)[2].stderr # <<>>

-----------------------------------------------------------------------------
(* C12 *)

\* the configured script "./deploy.sh" inside the directory dir, as
\* os.path.join writes it
ScriptInside(dir) ==
    IF dir # <<>> /\ dir[Len(dir)] = Slash
    THEN dir \o <<".", Slash, "deploy.sh">>
    ELSE dir \o <<Slash, ".", Slash, "deploy.sh">>

\* the frontend stage of request r has run its command to the end
FrontendRan(r) ==
    /\ HasFrontendScript(req[r])
    /\ pc[r] \in {"backend", "back_git", "fetch", "fetch_wait", "pull", "pull_wait",
                  "compose", "compose_wait", "finish", "done"}

\* C12: the frontend stage of a request for an environment with a frontend
\* script invokes at most one command, exactly one once the stage has run,
\* whose argument vector is exactly [bash, script_path, branch], script_path
\* being the configured script inside the supplied frontend directory, and
\* whose working directory is the supplied frontend directory; a request
\* for an environment without a frontend script invokes none.
C12_FrontendCommand ==
    \A r \in Requests :
        LET fs == FrontendCallsOf(r)
            q == req[r]
        IN  /\ Len(fs) <= 1
            /\ fs # <<>> => HasFrontendScript(q)
            /\ FrontendRan(r) => Len(fs) = 1
            /\ \A i \in DOMAIN fs :
                   /\ fs[i].argv = << <<"bash">>, ScriptInside(q.work_front_dir), q.branch >>
                   /\ fs[i].cwd = q.work_front_dir
                   /\ \A j \in DOMAIN CallsOf(r) : CallsOf(r)[j] = fs[i] => j = 1

\* the frontend script of a TEST request whose frontend directory differs
\* from its backend directory has run and the backend stage is under way
C12_Witness ==
    \E r \in Requests :
        /\ FrontendRan(r)
        /\ req[r].work_front_dir # req[r].work_back_dir
        /\ Len(FrontendCallsOf(r)) = 1
        /\ Len(BackendCallsOf(r)) >= 1

-----------------------------------------------------------------------------
(* C13 *)

\* ENVS_BY_KEY.get(key): the configuration of the key, NoEnv for None
NoEnv == [ key |-> <<>>, name |-> <<>>, front_deploy_script |-> <<>> ]
Lookup(key) ==
    IF key \in DOMAIN ENVS_BY_KEY
    THEN [ key |-> ENVS_BY_KEY[key].key, name |-> ENVS_BY_KEY[key].name,
           front_deploy_script |-> ENVS_BY_KEY[key].front_deploy_script ]
    ELSE NoEnv

\* the entry of the loaded list that request r was posted from
ListedFor(r) == CHOOSE e \in {envs[i] : i \in DOMAIN envs} : e.env_key = req[r].env_key

\* C13: the list the page loaded has one entry per entry of the registry, in
\* the registry's order; every listed key resolves on lookup, to a
\* configuration whose name is the listed name and which has a frontend
\* script exactly when the entry says has_frontend; and a request posted
\* with a listed key is never refused as an unknown environment, answers
\* with the listed name, and runs its frontend stage exactly when the entry
\* says has_frontend.
C13_ListLookupRoundTrip ==
    /\ envs # <<>> =>
          /\ Len(envs) = Len(ENVS)
          /\ \A i \in DOMAIN envs :
                /\ envs[i].env_key = ENVS[i].key
                /\ Lookup(envs[i].env_key) # NoEnv
                /\ Lookup(envs[i].env_key).key = envs[i].env_key
                /\ Lookup(envs[i].env_key).name = envs[i].name
                /\ envs[i].has_frontend
                      <=> Lookup(envs[i].env_key).front_deploy_script # <<>>
    /\ \A r \in Requests :
          Validated(r) =>
              /\ ~IsEnvError(err[r])
              /\ pc[r] = "done" => response[r].env = ListedFor(r).name
              /\ FrontendAttempted(r) => ListedFor(r).has_frontend
              /\ pc[r] = "done" =>
                    (ListedFor(r).has_frontend <=> FrontendCallsOf(r) # <<>>)

\* a request posted for the listed entry without a frontend has completed
\* and answered with the listed name
C13_Witness ==
    \E r \in Requests :
        /\ envs # <<>>
        /\ pc[r] = "done"
        /\ ~ListedFor(r).has_frontend
        /\ response[r].env = ListedFor(r).name
        /\ FrontendCallsOf(r) = <<>>

-----------------------------------------------------------------------------
(* C14 *)

\* every command of the pipeline of a request, in order
ExpectedCommands(q) ==
    (IF HasFrontendScript(q)
     THEN << << <<"bash">>, ScriptInside(q.work_front_dir), q.branch >> >>
     ELSE <<>>) \o ExpectedBackendCommands(q)

\* the probes a request makes when none of them fails: three for a frontend
\* stage that runs, two for the backend stage
ExpectedProbes(q) == IF HasFrontendScript(q) THEN 5 ELSE 2

\* validation passed, every precondition check of the request held, and
\* every command of its pipeline was invoked exactly once, in order, and
\* exited zero
AllStepsSucceeded(r) ==
    /\ PassedValidation(r)
    /\ Len(ChecksOf(r)) = ExpectedProbes(req[r])
    /\ \A i \in DOMAIN ChecksOf(r) : ChecksOf(r)[i].result
    /\ Len(CallsOf(r)) = Len(ExpectedCommands(req[r]))
    /\ \A i \in DOMAIN CallsOf(r) :
          /\ CallsOf(r)[i].argv = ExpectedCommands(req[r])[i]
          /\ CallsOf(r)[i].exited
          /\ CallsOf(r)[i].returncode = 0

\* C14: a request that has ended has a success result (ok = true with the
\* full transcript) if and only if validation passed, every precondition
\* check held, and every command of the pipeline (three without a frontend
\* script, four with) was invoked exactly once and exited zero; otherwise it
\* ended in an error and has no result. A result exists only for a request
\* that has ended.
C14_SuccessIffAllSucceeded ==
    \A r \in Requests :
        /\ response[r].ok <=> pc[r] = "done"
        /\ response[r].ok =>
              /\ response[r].output = log[r]
              /\ Contains(response[r].output, <<"DEPLOY FINISHED | ">>)
              /\ err[r] = NoError
        /\ Ended(r) => (response[r].ok <=> AllStepsSucceeded(r))
        /\ pc[r] = "error" => (response[r] = NoResponse /\ err[r] # NoError)
        /\ Len(CallsOf(r)) <= Len(ExpectedCommands(req[r]))
        /\ HasFrontendScript(req[r]) => Len(ExpectedCommands(req[r])) = 4
        /\ (KnownEnv(req[r]) /\ ~HasFrontendScript(req[r]))
              => Len(ExpectedCommands(req[r])) = 3

\* the deployment of an environment without a frontend script has
\* succeeded: fetch and pull wrote nothing, compose wrote "Started", and the
\* transcript has the skip marker before that output
C14_Witness ==
    \E r \in Requests :
        /\ response[r].ok
        /\ Len(CallsOf(r)) = 3
        /\ \A i \in 1..2 : CallsOf(r)[i].stdout = <<>> /\ CallsOf(r)[i].stderr = <<>>
        /\ CallsOf(r)[3].stdout = <<"Started", NL>>
        /\ \E i, j \in DOMAIN response[r].output :
              /\ i < j
              /\ response[r].output[i]
                    = "[Frontend] Skipped (not configured for this environment)"
              /\ response[r].output[j] = "Started"

-----------------------------------------------------------------------------
(* C15 *)

\* request r waits in subprocess.run for the command it spawned last
Waiting(r) == CallsOf(r) # <<>> /\ ~CallsOf(r)[Len(CallsOf(r))].exited

\* C15: when the worker thread runs and every spawned subprocess
\* terminates, every request that was received eventually ends, in a result
\* or an error, after at most four command invocations. A request is inside
\* subprocess.run exactly while its last command has not terminated: until
\* that command terminates the request takes no step (nothing times it out
\* or cancels it), so it neither ends nor invokes a later command.
C15_Terminates ==
    /\ [](\A r \in Requests :
             /\ Len(CallsOf(r)) <= 4
             /\ pc[r] \in WaitPcs <=> Waiting(r)
             /\ Waiting(r) => ~Ended(r) /\ response[r] = NoResponse)
    /\ [][\A r \in Requests :
             (Waiting(r) /\ ~calls'[LastCall(r)].exited) =>
                 /\ pc'[r] = pc[r]
                 /\ Len(calls') = Len(calls)
                 /\ <<log[r], stageLog[r], sink[r], err[r], response[r]>>'
                       = <<log[r], stageLog[r], sink[r], err[r], response[r]>>]_vars
    /\ \A r \in {"r1"} : (pc[r] = "deploy") ~> Ended(r)

\* a request has ended in a result after four command invocations
C15_Witness ==
    \E r \in Requests :
        /\ pc[r] = "done"
        /\ Len(CallsOf(r)) = 4
        /\ ~Waiting(r)

-----------------------------------------------------------------------------
(* C16 *)

\* the line the sink shows for the command block of call c
Rendering(c) == [ req |-> c.req, text |-> _cmd_block(c.argv, c.cwd) \o <<NL>> ]

\* the output has a character that is not whitespace
NotBlank(out) == \E i \in DOMAIN out : out[i] \notin {" ", "\n"}

\* the text of the sink entries at positions from..to, one after the other
RECURSIVE TextBetween(_, _, _)
TextBetween(es, from, to) ==
    IF from > to THEN <<>> ELSE es[from].text \o TextBetween(es, from + 1, to)

\* where in the sink of r the rendering of its i-th call is, 0 if nowhere
RenderingAt(r, i) ==
    IF \E k \in DOMAIN sink[r] : sink[r][k] = Rendering(CallsOf(r)[i])
    THEN CHOOSE k \in DOMAIN sink[r] : sink[r][k] = Rendering(CallsOf(r)[i])
    ELSE 0

\* what the sink of r shows after the rendering of its i-th call and before
\* the rendering of its next call (the finish banner left out)
EmittedAfter(r, i) ==
    LET es == SelectSeq(sink[r],
                  LAMBDA e : ~Contains(e.text, <<"DEPLOY FINISHED | ">>))
        from == RenderingAt(r, i) + 1
        to == IF i < Len(CallsOf(r)) THEN RenderingAt(r, i + 1) - 1 ELSE Len(es)
    IN  TextBetween(es, from, to)

\* C16 as stated: the rendering of every command a request has spawned is in
\* the sink, and once the command has completed its captured output is in
\* the sink after that rendering and before the rendering of any later
\* command.
C16_AsStated ==
    \A r \in Requests :
        \A i \in DOMAIN CallsOf(r) :
            /\ RenderingAt(r, i) > 0
            /\ CallsOf(r)[i].exited =>
                  Contains(EmittedAfter(r, i),
                           CallsOf(r)[i].stdout \o CallsOf(r)[i].stderr)

\* what the runner has printed for the calls cs: per call its rendering
\* and, once it has completed with output that is not blank, the output box
RECURSIVE CallPrints(_)
CallPrints(cs) ==
    IF cs = <<>> THEN <<>>
    ELSE LET c == cs[1]
             out == c.stdout \o c.stderr
         IN  <<Rendering(c)>>
               \o (IF c.exited /\ NotBlank(out)
                   THEN << [ req |-> c.req, text |-> <<"<box OUTPUT top>", NL>> ],
                           [ req |-> c.req, text |-> RStrip(out) \o <<NL>> ],
                           [ req |-> c.req, text |-> <<"<box OUTPUT bottom>", NL>> ] >>
                   ELSE <<>>)
               \o CallPrints(Tail(cs))

\* C16, amended: the sink of a request shows, after the start lines, for
\* every command in execution order its rendering (argv and cwd), there
\* from the moment the command is spawned, followed, once the command has
\* completed and before any failure is raised or any later rendering is
\* emitted, by its captured output with trailing whitespace stripped, in an
\* output box, when that output is not blank; blank output (empty or
\* whitespace only) is not emitted at all.
C16_SinkOrder ==
    \A r \in Requests :
        LET cs == CallsOf(r)
            finished == SelectSeq(sink[r],
                            LAMBDA e : Contains(e.text, <<"DEPLOY FINISHED | ">>))
            n == IF PassedValidation(r) THEN 4 ELSE 0
        IN  /\ Len(sink[r]) = n + Len(CallPrints(cs)) + Len(finished)
            /\ SubSeq(sink[r], n + 1, n + Len(CallPrints(cs))) = CallPrints(cs)
            /\ \A k \in 1..n : \A i \in DOMAIN cs : sink[r][k] # Rendering(cs[i])
            /\ finished # <<>> => pc[r] = "done"
            /\ (pc[r] = "error" /\ IsCommandError(err[r])) =>
                  /\ cs[Len(cs)].exited
                  /\ \A e \in {sink[r][k] : k \in DOMAIN sink[r]} :
                        ~Contains(e.text, <<"COMMAND FAILED">>)

\* git fetch has written a lone newline, which the sink does not show, and
\* git pull has then failed with a conflict, which the sink shows
C16_Witness ==
    \E r \in Requests :
        /\ pc[r] = "error"
        /\ Len(BackendCallsOf(r)) = 2
        /\ BackendCallsOf(r)[1].stdout = <<NL>> /\ BackendCallsOf(r)[1].stderr = <<>>
        /\ BackendCallsOf(r)[2].stderr = <<"conflict", NL>>
        /\ sink[r][Len(sink[r]) - 1].text = BackendCallsOf(r)[2].stdout \o <<"conflict", NL>>
        /\ sink[r][Len(sink[r]) - 4] = Rendering(BackendCallsOf(r)[1])

-----------------------------------------------------------------------------
(* C17 *)

\* the directory a walk ends in that starts in the directory at and follows
\* the components comps: the names from the filesystem root down
RECURSIVE Resolve(_, _)
Resolve(comps, at) ==
    IF comps = <<>> THEN at
    ELSE IF comps[1] \in {<<>>, <<".">>} THEN Resolve(Tail(comps), at)
    ELSE IF comps[1] = <<"..">>
         THEN Resolve(Tail(comps),
                      IF at = <<>> THEN at ELSE SubSeq(at, 1, Len(at) - 1))
    ELSE Resolve(Tail(comps), Append(at, comps[1]))

\* where the path leads, for a process whose working directory is cwd
Location(path, cwd) ==
    Resolve(SplitOn(path, Slash),
            IF path # <<>> /\ path[1] = Slash THEN <<>>
            ELSE Resolve(SplitOn(cwd, Slash), <<>>))

\* the path leads to a place under an allowed root directory: strictly
\* below it, the root directory itself is not under itself
LiesUnderRoot(path) ==
    \E i \in DOMAIN ALLOWED_ROOTS :
        LET root == Resolve(SplitOn(ALLOWED_ROOTS[i], Slash), <<>>)
            loc == Location(path, cwdir)
        IN  Len(loc) > Len(root) /\ SubSeq(loc, 1, Len(root)) = root

\* C17: for every path of the bounded family (segments "..", "." and names
\* after a prefix, with or without a trailing separator) the guard answers
\* true exactly when the path, made absolute and normalized, lies under the
\* allowed root directory; so a request is refused with a path error exactly
\* when one of its two directories does not lie under the root, the error
\* naming the first that does not. A path that begins with the root's text
\* and leaves it through "..", and a path into a sibling directory whose
\* name begins with the root's name, are refused.
C17_GuardIsContainment ==
    \A r \in Requests :
        (Validated(r) /\ KnownEnv(req[r])) =>
            LET front == req[r].work_front_dir
                back == req[r].work_back_dir
            IN  /\ _is_under_allowed_roots(front) <=> LiesUnderRoot(front)
                /\ _is_under_allowed_roots(back) <=> LiesUnderRoot(back)
                /\ IsPathError(err[r]) <=> ~(LiesUnderRoot(front) /\ LiesUnderRoot(back))
                /\ IsPathError(err[r]) =>
                      StartsWith(err[r].detail,
                          <<"Path not allowed: ">>
                              \o (IF ~LiesUnderRoot(front) THEN front ELSE back)
                              \o <<NL>>)
                /\ ~LiesUnderRoot(front) \/ ~LiesUnderRoot(back) => CallsOf(r) = <<>>

\* a request has passed the guard whose frontend directory begins in the
\* sibling directory and comes back under the root through ".."
C17_Witness ==
    \E r \in Requests :
        /\ Validated(r) /\ pc[r] # "error"
        /\ StartsWith(req[r].work_front_dir, EcosystemDir \o <<"-evil", Slash, "..">>)
        /\ LiesUnderRoot(req[r].work_front_dir)

====
